---- MODULE Spec2Model ----
(***************************************************************************)
(* proofEth: re-derivation of an Ethereum block hash from its header and   *)
(* transactions (src/src/block.rs, transaction.rs, receipt.rs, utils.rs).  *)
(*                                                                         *)
(* Byte strings are sequences of integers 0..255.  Native integers (u8,    *)
(* u64, u128, usize) are naturals; U256 values are their 32-byte           *)
(* big-endian representation, so that the encoder's stripping of leading   *)
(* zero bytes is computed.  An Option is a sequence: <<>> is None and      *)
(* <<v>> is Some(v).                                                       *)
(***************************************************************************)
EXTENDS Integers, Sequences, FiniteSets, TLC

VARIABLES
    \* Block::new / verify_block_hash (block.rs)
    record,            \* the external block record last handed to Block::new
    block,             \* the Block value held by the caller
    op,                \* the last operation on the block
    expected,          \* the hash handed to verify_block_hash, if op = "verify"
    verdict,           \* what verify_block_hash returned, if op = "verify"
    edits,             \* number of field writes made to the block
    \* Block::transaction_trie, one loop iteration per step (block.rs 94-114)
    num_transactions,  \* self.transactions.len()
    index,             \* the loop counter of `for index in 0..num_transactions`
    trie,              \* the HashBuilder
    tpc,               \* "loop" | "done" | "panic"
    \* VerifiedTransaction (transaction.rs)
    ext,               \* the external transaction last handed to new
    txn,               \* the VerifiedTransaction held by the caller
    buf,               \* the output buffer of encode
    txop,              \* the last operation on the transaction
    \* VerifiedReceipt (receipt.rs)
    receipt,           \* the VerifiedReceipt held by the caller
    rbuf,              \* the output buffer of encode
    rop                \* the last operation on the receipt

vars == <<record, block, op, expected, verdict, edits,
          num_transactions, index, trie, tpc,
          ext, txn, buf, txop, receipt, rbuf, rop>>

blockVars == <<record, block, op, expected, verdict, edits>>
trieVars == <<num_transactions, index, trie, tpc>>
txVars == <<ext, txn, buf, txop>>
receiptVars == <<receipt, rbuf, rop>>

(***************************************************************************)
(* Bounds of the model.                                                    *)
(***************************************************************************)
\* longest transaction list of a block record
MaxTxs == 2
\* field writes made to one Block after its construction
MaxEdits == 1
\* largest transaction count the trie loop is run on
MaxTrieLen == 130
\* largest value of the public tx_type field of a populated variant
MaxTxType == 3
\* largest number of logs in a receipt
MaxLogs == 2

(***************************************************************************)
(* Widths of the fixed-size byte types the records are declared with.      *)
(***************************************************************************)
AddressLen == 20
B256Len == 32
B64Len == 8
BloomLen == 256
\* alloy_primitives::Log holds at most four topics (Log::new(..).unwrap())
MaxTopics == 4

(***************************************************************************)
(* Byte-string helpers.                                                    *)
(***************************************************************************)
Fill(n, b) == [k \in 1..n |-> b]

RECURSIVE Concat(_)
Concat(ss) == IF ss = <<>> THEN <<>> ELSE Head(ss) \o Concat(Tail(ss))

RECURSIVE Sum(_)
Sum(ns) == IF ns = <<>> THEN 0 ELSE Head(ns) + Sum(Tail(ns))

\* minimal big-endian bytes of a native integer (zero has none)
RECURSIVE to_be_bytes(_)
to_be_bytes(x) == IF x = 0 THEN <<>> ELSE Append(to_be_bytes(x \div 256), x % 256)

RECURSIVE from_be_bytes(_)
from_be_bytes(bs) ==
    IF bs = <<>> THEN 0
    ELSE 256 * from_be_bytes(SubSeq(bs, 1, Len(bs) - 1)) + bs[Len(bs)]

RECURSIVE trim_leading_zeros(_)
trim_leading_zeros(bs) ==
    IF bs # <<>> /\ Head(bs) = 0 THEN trim_leading_zeros(Tail(bs)) ELSE bs

\* the 32-byte big-endian representation of a small natural
U256(x) == LET be == to_be_bytes(x) IN Fill(B256Len - Len(be), 0) \o be

None == <<>>
Some(v) == <<v>>
is_some(o) == Len(o) = 1
unwrap(o) == o[1]

(***************************************************************************)
(* alloy_rlp: the length-prefixed canonical encoding (spec 4.1).           *)
(***************************************************************************)
length_of_length(payload_length) ==
    IF payload_length < 56 THEN 1 ELSE 1 + Len(to_be_bytes(payload_length))

\* alloy_rlp::Header { list, payload_length }.encode
Header_encode(list, payload_length) ==
    IF payload_length < 56
    THEN << (IF list THEN 192 ELSE 128) + payload_length >>
    ELSE LET be == to_be_bytes(payload_length)
         IN  << (IF list THEN 247 ELSE 183) + Len(be) >> \o be

\* a byte string (&[u8], Bytes)
bytes_length(bs) ==
    IF Len(bs) = 1 /\ bs[1] < 128 THEN 1 ELSE Len(bs) + length_of_length(Len(bs))

bytes_encode(bs) ==
    IF Len(bs) = 1 /\ bs[1] < 128 THEN bs ELSE Header_encode(FALSE, Len(bs)) \o bs

\* FixedBytes<N> with N >= 2 (Address, B256, B64, Bloom): the header depends on N only
fixed_length(n) == n + length_of_length(n)
fixed_encode(n, bs) == Header_encode(FALSE, n) \o bs

\* native unsigned integers (u64, u128, usize, ChainId, U64)
uint_length(x) == bytes_length(to_be_bytes(x))
uint_encode(x) == bytes_encode(to_be_bytes(x))

\* U256: leading zero bytes stripped, zero is the empty string
U256_length(w) == bytes_length(trim_leading_zeros(w))
U256_encode(w) == bytes_encode(trim_leading_zeros(w))

bool_length(b) == 1
bool_encode(b) == IF b THEN <<1>> ELSE <<128>>

\* Vec<T>: a list header over the concatenated items
list_length(item_lengths) ==
    LET p == Sum(item_lengths) IN p + length_of_length(p)
list_encode(item_lengths, item_encodings) ==
    Header_encode(TRUE, Sum(item_lengths)) \o Concat(item_encodings)

\* Nibbles::unpack: two half-bytes per byte, high half first
RECURSIVE Nibbles_unpack(_)
Nibbles_unpack(bs) ==
    IF bs = <<>> THEN <<>>
    ELSE << Head(bs) \div 16, Head(bs) % 16 >> \o Nibbles_unpack(Tail(bs))

\* lexicographic order on nibble sequences (a proper prefix is smaller)
RECURSIVE nibbles_less(_, _)
nibbles_less(a, b) ==
    IF b = <<>> THEN FALSE
    ELSE IF a = <<>> THEN TRUE
    ELSE IF Head(a) # Head(b) THEN Head(a) < Head(b)
    ELSE nibbles_less(Tail(a), Tail(b))

(***************************************************************************)
(* keccak256, idealised as an injective function: the digest of a buffer   *)
(* is the term "hash of that buffer", written as the buffer between two    *)
(* marks that are no bytes.  Two digests are equal iff the buffers are.    *)
(***************************************************************************)
keccak256(buffer) == <<-1>> \o buffer \o <<-2>>

\* BlockHash::ZERO
BlockHash_ZERO == Fill(B256Len, 0)

(***************************************************************************)
(* receipt.rs: VerifiedReceipt.                                            *)
(***************************************************************************)
\* alloy_primitives::Log: list-of(address, list of topics, data)
Log_payload_length(log) ==
    fixed_length(AddressLen)
    + bytes_length(log.data)
    + list_length([k \in 1..Len(log.topics) |-> fixed_length(B256Len)])

Log_length(log) ==
    Log_payload_length(log) + length_of_length(Log_payload_length(log))

Log_encode(log) ==
    Header_encode(TRUE, Log_payload_length(log))
    \o fixed_encode(AddressLen, log.address)
    \o list_encode([k \in 1..Len(log.topics) |-> fixed_length(B256Len)],
                   [k \in 1..Len(log.topics) |-> fixed_encode(B256Len, log.topics[k])])
    \o bytes_encode(log.data)

\* Vec<Log>
logs_length(logs) == list_length([k \in 1..Len(logs) |-> Log_length(logs[k])])
logs_encode(logs) ==
    list_encode([k \in 1..Len(logs) |-> Log_length(logs[k])],
                [k \in 1..Len(logs) |-> Log_encode(logs[k])])

\* VerifiedReceipt::payload_length
VerifiedReceipt_payload_length(self) ==
    bool_length(self.status)
    + U256_length(self.cumulative_gas_used)
    + fixed_length(BloomLen)
    + Len(self.logs)

\* VerifiedReceipt::encode
VerifiedReceipt_encode(self) ==
    (IF is_some(self.transaction_type) THEN << unwrap(self.transaction_type) >> ELSE <<>>)
    \o Header_encode(TRUE, VerifiedReceipt_payload_length(self))
    \o bool_encode(self.status)
    \o U256_encode(self.cumulative_gas_used)
    \o fixed_encode(BloomLen, self.logs_bloom)
    \o logs_encode(self.logs)

\* VerifiedReceipt::default()
VerifiedReceipt_default ==
    [transaction_type |-> None, status |-> FALSE, cumulative_gas_used |-> U256(0),
     logs |-> <<>>, logs_bloom |-> Fill(BloomLen, 0)]

\* From<&TransactionReceipt>: [ok |-> FALSE] is a panic (an unwrap of Log::new
\* on more than four topics, or of u8::try_from on a type above 255)
VerifiedReceipt_from(value) ==
    IF \/ \E k \in 1..Len(value.logs) : Len(value.logs[k].topics) > MaxTopics
       \/ (is_some(value.transaction_type) /\ unwrap(value.transaction_type) > 255)
    THEN [ok |-> FALSE, value |-> VerifiedReceipt_default]
    ELSE [ok |-> TRUE,
          value |-> [transaction_type |-> value.transaction_type,
                     status |-> IF is_some(value.status) THEN unwrap(value.status) = 1 ELSE FALSE,
                     cumulative_gas_used |-> value.cumulative_gas_used,
                     logs |-> [k \in 1..Len(value.logs) |->
                                  [address |-> value.logs[k].address,
                                   topics |-> value.logs[k].topics,
                                   data |-> value.logs[k].data]],
                     logs_bloom |-> value.logs_bloom]]

(***************************************************************************)
(* transaction.rs: Signature, AccessListItem and the three variants.       *)
(***************************************************************************)
\* #[derive(RlpEncodable)] Signature: Encodable::length counts the list header
Signature_length(sig) ==
    list_length(<< U256_length(sig.v), U256_length(sig.r), U256_length(sig.s) >>)

\* the inherent Signature::encode, which method resolution prefers over the
\* derived Encodable::encode: v, r, s with no list header
Signature_encode(sig) ==
    U256_encode(sig.v) \o U256_encode(sig.r) \o U256_encode(sig.s)

\* #[derive(RlpEncodable)] AccessListItem: list-of(address, list of storage keys)
AccessListItem_fields(item) ==
    << fixed_length(AddressLen),
       list_length([k \in 1..Len(item.storage_key) |-> fixed_length(B256Len)]) >>

AccessListItem_length(item) == list_length(AccessListItem_fields(item))

AccessListItem_encode(item) ==
    list_encode(AccessListItem_fields(item),
        << fixed_encode(AddressLen, item.address),
           list_encode([k \in 1..Len(item.storage_key) |-> fixed_length(B256Len)],
                       [k \in 1..Len(item.storage_key) |->
                           fixed_encode(B256Len, item.storage_key[k])]) >>)

\* Vec<AccessListItem>
access_list_length(al) ==
    list_length([k \in 1..Len(al) |-> AccessListItem_length(al[k])])
access_list_encode(al) ==
    list_encode([k \in 1..Len(al) |-> AccessListItem_length(al[k])],
                [k \in 1..Len(al) |-> AccessListItem_encode(al[k])])

\* TxLegacy::payload_length
TxLegacy_payload_length(self) ==
    uint_length(self.nonce)
    + uint_length(self.gas_price)
    + uint_length(self.gas_limit)
    + fixed_length(AddressLen)
    + U256_length(self.value)
    + bytes_length(self.data)
    + U256_length(self.signature.v)
    + U256_length(self.signature.r)
    + U256_length(self.signature.s)

\* TxLegacy::encode
TxLegacy_encode(self) ==
    Header_encode(TRUE, TxLegacy_payload_length(self))
    \o uint_encode(self.nonce)
    \o uint_encode(self.gas_price)
    \o uint_encode(self.gas_limit)
    \o fixed_encode(AddressLen, self.to)
    \o U256_encode(self.value)
    \o bytes_encode(self.data)
    \o Signature_encode(self.signature)

\* Tx2930::payload_length
Tx2930_payload_length(self) ==
    uint_length(self.chain_id)
    + uint_length(self.nonce)
    + uint_length(self.gas_price)
    + uint_length(self.gas_limit)
    + fixed_length(AddressLen)
    + U256_length(self.value)
    + bytes_length(self.data)
    + access_list_length(self.access_list)
    + Signature_length(self.signature)

\* Tx2930::encode
Tx2930_encode(self) ==
    << self.tx_type >>
    \o Header_encode(TRUE, Tx2930_payload_length(self))
    \o uint_encode(self.chain_id)
    \o uint_encode(self.nonce)
    \o uint_encode(self.gas_price)
    \o uint_encode(self.gas_limit)
    \o fixed_encode(AddressLen, self.to)
    \o U256_encode(self.value)
    \o bytes_encode(self.data)
    \o access_list_encode(self.access_list)
    \o Signature_encode(self.signature)

\* Tx1559::payload_length
Tx1559_payload_length(self) ==
    uint_length(self.chain_id)
    + uint_length(self.nonce)
    + uint_length(self.max_priority_fee_per_gas)
    + uint_length(self.max_fee_per_gas)
    + uint_length(self.gas_limit)
    + fixed_length(AddressLen)
    + U256_length(self.value)
    + bytes_length(self.data)
    + access_list_length(self.access_list)
    + U256_length(self.signature.v)
    + U256_length(self.signature.r)
    + U256_length(self.signature.s)

\* Tx1559::encode
Tx1559_encode(self) ==
    << self.tx_type >>
    \o Header_encode(TRUE, Tx1559_payload_length(self))
    \o uint_encode(self.chain_id)
    \o uint_encode(self.nonce)
    \o uint_encode(self.max_priority_fee_per_gas)
    \o uint_encode(self.max_fee_per_gas)
    \o uint_encode(self.gas_limit)
    \o fixed_encode(AddressLen, self.to)
    \o U256_encode(self.value)
    \o bytes_encode(self.data)
    \o access_list_encode(self.access_list)
    \o Signature_encode(self.signature)

\* the encoding with the embedded receipt written after the transaction
VerifiedTransaction_encode_with_receipt(self) ==
    (CASE self.variant = "Legacy" -> TxLegacy_encode(self)
       [] self.variant = "Eip1559" -> Tx1559_encode(self)
       [] self.variant = "Eip2930" -> Tx2930_encode(self))
    \o VerifiedReceipt_encode(self.receipt)

\* VerifiedTransaction::encode
VerifiedTransaction_encode(self) ==
    CASE self.variant = "Legacy" -> TxLegacy_encode(self)
      [] self.variant = "Eip1559" -> Tx1559_encode(self)
      [] self.variant = "Eip2930" -> Tx2930_encode(self)

\* VerifiedTransaction::receipt
VerifiedTransaction_receipt(self) == self.receipt

\* no transaction held
NoTxn == [variant |-> "None"]

\* the access-list conversion shared by the type-1 and type-2 arms
access_list_from(list) ==
    [k \in 1..Len(list) |->
        [address |-> list[k].address, storage_key |-> list[k].storage_keys]]

signature_from(transaction) ==
    [v |-> U256(transaction.v), r |-> transaction.r, s |-> transaction.s]

\* VerifiedTransaction::new: [ok |-> FALSE] is a panic (an unwrap of an absent
\* field, or the `_ => panic!("Unknown transaction type")` arm)
VerifiedTransaction_new(transaction, rcpt) ==
    LET ty == transaction.transaction_type
        r == VerifiedReceipt_from(rcpt)
        panic == [ok |-> FALSE, value |-> NoTxn]
    IN
    IF ty = Some(0) THEN
        IF is_some(transaction.gas_price) /\ is_some(transaction.to) /\ r.ok
        THEN [ok |-> TRUE,
              value |-> [variant |-> "Legacy",
                         nonce |-> transaction.nonce,
                         gas_price |-> unwrap(transaction.gas_price),
                         gas_limit |-> transaction.gas,
                         to |-> unwrap(transaction.to),
                         value |-> transaction.value,
                         data |-> transaction.input,
                         signature |-> signature_from(transaction),
                         receipt |-> r.value]]
        ELSE panic
    ELSE IF ty = Some(1) THEN
        IF /\ is_some(transaction.chain_id) /\ is_some(transaction.gas_price)
           /\ is_some(transaction.to) /\ is_some(transaction.access_list) /\ r.ok
        THEN [ok |-> TRUE,
              value |-> [variant |-> "Eip2930",
                         tx_type |-> 1,
                         chain_id |-> unwrap(transaction.chain_id),
                         nonce |-> transaction.nonce,
                         gas_price |-> unwrap(transaction.gas_price),
                         gas_limit |-> transaction.gas,
                         to |-> unwrap(transaction.to),
                         value |-> transaction.value,
                         data |-> transaction.input,
                         access_list |-> access_list_from(unwrap(transaction.access_list)),
                         signature |-> signature_from(transaction),
                         receipt |-> r.value]]
        ELSE panic
    ELSE IF ty = Some(2) THEN
        IF /\ is_some(transaction.chain_id) /\ is_some(transaction.to)
           /\ is_some(transaction.access_list)
           /\ is_some(transaction.max_fee_per_gas)
           /\ is_some(transaction.max_priority_fee_per_gas) /\ r.ok
        THEN [ok |-> TRUE,
              value |-> [variant |-> "Eip1559",
                         tx_type |-> 2,
                         chain_id |-> unwrap(transaction.chain_id),
                         nonce |-> transaction.nonce,
                         gas_limit |-> transaction.gas,
                         to |-> unwrap(transaction.to),
                         value |-> transaction.value,
                         data |-> transaction.input,
                         access_list |-> access_list_from(unwrap(transaction.access_list)),
                         max_fee_per_gas |-> unwrap(transaction.max_fee_per_gas),
                         max_priority_fee_per_gas |->
                             unwrap(transaction.max_priority_fee_per_gas),
                         signature |-> signature_from(transaction),
                         receipt |-> r.value]]
        ELSE panic
    ELSE panic

(***************************************************************************)
(* utils.rs: the order in which the transaction indices enter the trie.    *)
(***************************************************************************)
\* the branch that treats every index as an ordinary one
index_for_rlp_no_wrap(i, len) ==
    IF i > 127 THEN i
    ELSE IF i = 127 THEN 0
    ELSE i + 1

\* the last-index test taken before the 0x7f test
index_for_rlp_wrap_first(i, len) ==
    IF i + 1 = len THEN 0
    ELSE IF i > 127 THEN i
    ELSE IF i = 127 THEN 0
    ELSE i + 1

index_for_rlp(i, len) ==
    IF i > 127 THEN i
    ELSE IF i = 127 \/ i + 1 = len THEN 0
    ELSE i + 1

(***************************************************************************)
(* alloy_trie::HashBuilder.  A leaf keeps its key and, for its value, the  *)
(* position of the transaction whose encoding was handed to add_leaf; the  *)
(* root encodes the values.  add_leaf asserts that keys arrive in strictly *)
(* ascending order; ok = FALSE is that assertion (or an index out of       *)
(* range) failing, a panic.                                                *)
(***************************************************************************)
HashBuilder_default == [key |-> <<>>, leaves |-> <<>>, ok |-> TRUE]

add_leaf(t, key, value) ==
    IF nibbles_less(t.key, key)
    THEN [key |-> key, leaves |-> Append(t.leaves, [key |-> key, tx |-> value]), ok |-> TRUE]
    ELSE [t EXCEPT !.ok = FALSE]

\* keccak256 of the encoding of the empty string: alloy_trie::EMPTY_ROOT_HASH
EMPTY_ROOT_HASH == keccak256(<<128>>)

\* HashBuilder::root: a digest that commits to every (key, value) pair
HashBuilder_root(t, transactions) ==
    IF t.leaves = <<>> THEN EMPTY_ROOT_HASH
    ELSE keccak256(Concat([k \in 1..Len(t.leaves) |->
            t.leaves[k].key \o <<-3>>
            \o VerifiedTransaction_encode(transactions[t.leaves[k].tx + 1]) \o <<-4>>]))

\* the loop body with the leaf value taken at the loop counter
trie_step_at_counter(t, i, len) ==
    LET idx == index_for_rlp(i, len)
    IN  IF idx >= len THEN [t EXCEPT !.ok = FALSE]
        ELSE add_leaf(t, Nibbles_unpack(uint_encode(idx)), i)

\* the loop body with the key taken at the loop counter
trie_step_key_at_counter(t, i, len) ==
    LET idx == index_for_rlp(i, len)
    IN  IF idx >= len THEN [t EXCEPT !.ok = FALSE]
        ELSE add_leaf(t, Nibbles_unpack(uint_encode(i)), idx)

\* one iteration of `for index in 0..num_transactions` in transaction_trie
trie_step(t, i, len) ==
    LET idx == index_for_rlp(i, len)
    IN  IF idx >= len THEN [t EXCEPT !.ok = FALSE]
        ELSE add_leaf(t, Nibbles_unpack(uint_encode(idx)), idx)

RECURSIVE trie_loop(_, _, _)
trie_loop(t, i, len) ==
    IF i >= len \/ ~t.ok THEN t ELSE trie_loop(trie_step(t, i, len), i + 1, len)

\* Block::transaction_trie: [ok |-> FALSE] is a panic
transaction_trie(transactions) ==
    LET t == trie_loop(HashBuilder_default, 0, Len(transactions))
    IN  [ok |-> t.ok,
         value |-> IF t.ok THEN HashBuilder_root(t, transactions) ELSE BlockHash_ZERO]

(***************************************************************************)
(* block.rs: BlockHeader and Block.                                        *)
(***************************************************************************)
HeaderFields ==
    << "parent", "uncles_hash", "miner", "state_root", "transaction_root",
       "receipts_root", "logs_bloom", "difficulty", "number", "gas_limit",
       "gas_used", "timestamp", "extra_data", "mix_hash", "nonce",
       "base_fee_per_gas", "withdrawals_root" >>

\* the declared type of each header field
FieldType(f) ==
    CASE f \in {"parent", "uncles_hash", "state_root", "transaction_root",
                "receipts_root", "mix_hash", "withdrawals_root"} -> "B256"
      [] f = "miner" -> "Address"
      [] f = "logs_bloom" -> "Bloom"
      [] f \in {"difficulty", "gas_limit", "gas_used", "timestamp",
                "base_fee_per_gas"} -> "U256"
      [] f = "number" -> "U64"
      [] f = "extra_data" -> "Bytes"
      [] f = "nonce" -> "B64"

field_length(ty, v) ==
    CASE ty = "B256" -> fixed_length(B256Len)
      [] ty = "Address" -> fixed_length(AddressLen)
      [] ty = "Bloom" -> fixed_length(BloomLen)
      [] ty = "B64" -> fixed_length(B64Len)
      [] ty = "U256" -> U256_length(v)
      [] ty = "U64" -> uint_length(v)
      [] ty = "Bytes" -> bytes_length(v)

field_encode(ty, v) ==
    CASE ty = "B256" -> fixed_encode(B256Len, v)
      [] ty = "Address" -> fixed_encode(AddressLen, v)
      [] ty = "Bloom" -> fixed_encode(BloomLen, v)
      [] ty = "B64" -> fixed_encode(B64Len, v)
      [] ty = "U256" -> U256_encode(v)
      [] ty = "U64" -> uint_encode(v)
      [] ty = "Bytes" -> bytes_encode(v)

\* the encoding with the nonce left out
BlockHeader_encode_skip_nonce(h) ==
    LET fs == SelectSeq(HeaderFields, LAMBDA f : f # "nonce")
    IN  list_encode([k \in 1..Len(fs) |-> field_length(FieldType(fs[k]), h[fs[k]])],
                    [k \in 1..Len(fs) |-> field_encode(FieldType(fs[k]), h[fs[k]])])

\* #[derive(RlpEncodable)] BlockHeader: list-of the 17 fields in declared order
BlockHeader_encode(h) ==
    list_encode([k \in 1..Len(HeaderFields) |->
                    field_length(FieldType(HeaderFields[k]), h[HeaderFields[k]])],
                [k \in 1..Len(HeaderFields) |->
                    field_encode(FieldType(HeaderFields[k]), h[HeaderFields[k]])])

\* the fields of the external record that From unwraps
OptionFields ==
    {"author", "logs_bloom", "number", "mix_hash", "nonce", "base_fee_per_gas",
     "withdrawals_root"}

\* the external record's field behind each header field
RecordField(f) ==
    CASE f = "parent" -> "parent_hash"
      [] f = "miner" -> "author"
      [] f = "transaction_root" -> "transactions_root"
      [] OTHER -> f

\* From<&prelude::Block<T>> for BlockHeader: [ok |-> FALSE] is an unwrap of None
BlockHeader_from(value) ==
    IF \E o \in OptionFields : ~is_some(value[o])
    THEN [ok |-> FALSE]
    ELSE [ok |-> TRUE,
          value |-> [parent |-> value.parent_hash,
                     uncles_hash |-> value.uncles_hash,
                     miner |-> unwrap(value.author),
                     state_root |-> value.state_root,
                     transaction_root |-> value.transactions_root,
                     receipts_root |-> value.receipts_root,
                     logs_bloom |-> unwrap(value.logs_bloom),
                     difficulty |-> value.difficulty,
                     number |-> unwrap(value.number),
                     gas_limit |-> value.gas_limit,
                     gas_used |-> value.gas_used,
                     timestamp |-> value.timestamp,
                     extra_data |-> value.extra_data,
                     mix_hash |-> unwrap(value.mix_hash),
                     nonce |-> unwrap(value.nonce),
                     base_fee_per_gas |-> unwrap(value.base_fee_per_gas),
                     withdrawals_root |-> unwrap(value.withdrawals_root)]]

\* a receipt with nothing in it, for a transaction that comes without one
EmptyReceipt ==
    [transaction_type |-> None, status |-> None, cumulative_gas_used |-> U256(0),
     logs |-> <<>>, logs_bloom |-> Fill(BloomLen, 0)]

\* Transaction::from(&ethers::types::Transaction), as Block::new calls it
Transaction_from(t) == VerifiedTransaction_new(t, EmptyReceipt)

NoBlock == [exists |-> FALSE]

\* Block::new with the supplied transaction root kept in the header
Block_new_trusting_root(b) ==
    LET txs == [k \in 1..Len(b.transactions) |-> Transaction_from(b.transactions[k])]
        header == BlockHeader_from(b)
    IN  IF (\E k \in 1..Len(txs) : ~txs[k].ok) \/ ~header.ok
        THEN [ok |-> FALSE, value |-> NoBlock]
        ELSE LET transactions == [k \in 1..Len(txs) |-> txs[k].value]
             IN  [ok |-> TRUE,
                  value |-> [exists |-> TRUE,
                             hash |-> keccak256(BlockHeader_encode(header.value)),
                             header |-> header.value,
                             transactions |-> transactions]]

\* Block::new: [ok |-> FALSE] is a panic
Block_new(b) ==
    LET txs == [k \in 1..Len(b.transactions) |-> Transaction_from(b.transactions[k])]
        header == BlockHeader_from(b)
    IN  IF (\E k \in 1..Len(txs) : ~txs[k].ok) \/ ~header.ok
        THEN [ok |-> FALSE, value |-> NoBlock]
        ELSE LET transactions == [k \in 1..Len(txs) |-> txs[k].value]
                 root == transaction_trie(transactions)
             IN  IF ~root.ok THEN [ok |-> FALSE, value |-> NoBlock]
                 ELSE LET finished == [header.value EXCEPT !.transaction_root = root.value]
                      IN  [ok |-> TRUE,
                           value |-> [exists |-> TRUE,
                                      hash |-> keccak256(BlockHeader_encode(finished)),
                                      header |-> finished,
                                      transactions |-> transactions]]

\* the check answered from the header instead of the stored hash
verify_block_hash_rehash(self, hash) == keccak256(BlockHeader_encode(self.header)) = hash

\* Block::verify_block_hash
verify_block_hash(self, hash) == self.hash = hash

(***************************************************************************)
(* Inputs: external transactions, receipts and block records.              *)
(***************************************************************************)
Addr1 == Fill(AddressLen, 22)
Addr2 == Fill(AddressLen, 166)

AccessLists ==
    { <<>>, << [address |-> Addr2, storage_keys |-> << Fill(B256Len, 7) >>] >> }

\* the fields of an external transaction that may be absent
MissingChoices ==
    {"nothing", "gas_price", "to", "chain_id", "access_list", "max_fee_per_gas",
     "max_priority_fee_per_gas"}

\* an external transaction: its type tag, the one field it lacks, whether its
\* signature and data are full-size, and its access list
ExtTx(ty, missing, big, al) ==
    [transaction_type |-> ty,
     nonce |-> 1752,
     gas_price |-> IF missing = "gas_price" THEN None ELSE Some(300000000),
     gas |-> 90277,
     to |-> IF missing = "to" THEN None ELSE Some(Addr1),
     value |-> U256(3000000),
     input |-> IF big THEN Fill(36, 161) ELSE <<>>,
     v |-> IF big THEN 45 ELSE 1,
     r |-> IF big THEN Fill(B256Len, 177) ELSE U256(5),
     s |-> IF big THEN Fill(B256Len, 8) ELSE U256(6),
     access_list |-> IF missing = "access_list" THEN None ELSE Some(al),
     chain_id |-> IF missing = "chain_id" THEN None ELSE Some(1),
     max_fee_per_gas |-> IF missing = "max_fee_per_gas" THEN None ELSE Some(61521818),
     max_priority_fee_per_gas |->
         IF missing = "max_priority_fee_per_gas" THEN None ELSE Some(0)]

TypeTags == {None} \cup {Some(k) : k \in 0..MaxTxType}

ExtTransactions ==
    {ExtTx(ty, m, big, al) :
        ty \in TypeTags, m \in MissingChoices, big \in BOOLEAN, al \in AccessLists}

\* the fields VerifiedTransaction::new unwraps for each type tag
Required(k) ==
    CASE k = 0 -> {"gas_price", "to"}
      [] k = 1 -> {"chain_id", "gas_price", "to", "access_list"}
      [] k = 2 -> {"chain_id", "to", "access_list", "max_fee_per_gas",
                   "max_priority_fee_per_gas"}
      [] OTHER -> {}

\* the type tag is absent or unknown, or a field the type requires is absent
Malformed(t) ==
    \/ ~is_some(t.transaction_type)
    \/ unwrap(t.transaction_type) \notin {0, 1, 2}
    \/ \E f \in Required(unwrap(t.transaction_type)) : ~is_some(t[f])

Log1 == [address |-> Addr1, topics |-> << Fill(B256Len, 221) >>, data |-> <<>>]
Log2 == [address |-> Addr2, topics |-> <<>>, data |-> Fill(3, 200)]
LogTooManyTopics ==
    [address |-> Addr1, topics |-> [k \in 1..(MaxTopics + 1) |-> Fill(B256Len, k)],
     data |-> <<>>]

ExtReceipt(ty, status, gas, logs) ==
    [transaction_type |-> ty, status |-> status, cumulative_gas_used |-> U256(gas),
     logs |-> logs, logs_bloom |-> Fill(BloomLen, 168)]

\* the receipts handed to VerifiedTransaction::new
TxReceipts ==
    { EmptyReceipt,
      ExtReceipt(Some(2), Some(1), 21000, << Log1 >>),
      ExtReceipt(None, Some(1), 21000, << LogTooManyTopics >>) }

RECURSIVE SeqsUpTo(_, _)
SeqsUpTo(S, n) ==
    IF n = 0 THEN { <<>> }
    ELSE LET shorter == SeqsUpTo(S, n - 1)
         IN  shorter \cup {Append(q, x) : q \in shorter, x \in S}

\* the receipts handed to VerifiedReceipt::from
ExtReceipts ==
    {ExtReceipt(ty, st, gas, logs) :
        ty \in {None, Some(0), Some(2), Some(256)},
        st \in {None, Some(0), Some(1)},
        gas \in {0, 21000},
        logs \in SeqsUpTo({Log1, Log2}, MaxLogs) \cup { << LogTooManyTopics >> }}

\* the values each header field is given
FieldValues(f) ==
    CASE FieldType(f) = "B256" -> {Fill(B256Len, 158), Fill(B256Len, 1)}
      [] FieldType(f) = "Address" -> {Fill(AddressLen, 149), Fill(AddressLen, 1)}
      [] FieldType(f) = "Bloom" -> {Fill(BloomLen, 168), Fill(BloomLen, 0)}
      [] FieldType(f) = "B64" -> {Fill(B64Len, 0), Fill(B64Len, 1)}
      [] FieldType(f) = "U256" -> {U256(30000000), U256(0), U256(200)}
      [] FieldType(f) = "U64" -> {18677559, 0, 127}
      [] FieldType(f) = "Bytes" -> {<<98, 101, 97, 118, 101, 114>>, <<>>, <<1>>}

\* the header of the test in block.rs, in the model's values
BaseRecord ==
    [parent_hash |-> Fill(B256Len, 158),
     uncles_hash |-> Fill(B256Len, 158),
     author |-> Some(Fill(AddressLen, 149)),
     state_root |-> Fill(B256Len, 158),
     transactions_root |-> Fill(B256Len, 158),
     receipts_root |-> Fill(B256Len, 158),
     logs_bloom |-> Some(Fill(BloomLen, 168)),
     difficulty |-> U256(0),
     number |-> Some(18677559),
     gas_limit |-> U256(30000000),
     gas_used |-> U256(30000000),
     timestamp |-> U256(30000000),
     extra_data |-> <<98, 101, 97, 118, 101, 114>>,
     mix_hash |-> Some(Fill(B256Len, 158)),
     nonce |-> Some(Fill(B64Len, 0)),
     base_fee_per_gas |-> Some(U256(30000000)),
     withdrawals_root |-> Some(Fill(B256Len, 158)),
     transactions |-> <<>>]

\* record b with header field f supplied as v
WithField(b, f, v) ==
    [b EXCEPT ![RecordField(f)] = IF RecordField(f) \in OptionFields THEN Some(v) ELSE v]

\* the value record b supplies for header field f
Supplied(b, f) ==
    IF RecordField(f) \in OptionFields THEN unwrap(b[RecordField(f)]) ELSE b[RecordField(f)]

HeaderFieldSet == {HeaderFields[k] : k \in 1..Len(HeaderFields)}

\* the transactions of a block record: a legacy and a fee-market one
BlockTxs ==
    { ExtTx(Some(0), "nothing", FALSE, <<>>),
      ExtTx(Some(2), "nothing", TRUE, <<>>) }

\* the block records handed to Block::new: the base record with one header
\* field changed or absent, and the base record under each supplied
\* transaction root with each transaction list
Records ==
    UNION {{WithField(BaseRecord, f, v) : v \in FieldValues(f)} : f \in HeaderFieldSet}
    \cup {[BaseRecord EXCEPT ![o] = None] : o \in OptionFields}
    \cup {[WithField(BaseRecord, "transaction_root", v) EXCEPT !.transactions = txs] :
            v \in FieldValues("transaction_root"), txs \in SeqsUpTo(BlockTxs, MaxTxs)}

(***************************************************************************)
(* The state each component starts in, and stays in while another          *)
(* component is the one being run.                                         *)
(***************************************************************************)
BlockIdle ==
    /\ record = BaseRecord
    /\ block = NoBlock
    /\ op = "none"
    /\ expected = BlockHash_ZERO
    /\ verdict = FALSE
    /\ edits = 0

TrieIdle ==
    /\ num_transactions = 0
    /\ index = 0
    /\ trie = HashBuilder_default
    /\ tpc = "loop"

TxIdle ==
    /\ ext = ExtTx(None, "nothing", FALSE, <<>>)
    /\ txn = NoTxn
    /\ buf = <<>>
    /\ txop = "none"

ReceiptIdle ==
    /\ receipt = VerifiedReceipt_default
    /\ rbuf = <<>>
    /\ rop = "none"

(***************************************************************************)
(* Block: construction, field writes and verification.                     *)
(***************************************************************************)
\* the hash a caller trusts: that of the block built from the base record
TrustedHash == Block_new(BaseRecord).value.hash

\* let block = Block::new(&record): a run follows one Block from its construction
BlockNew ==
    /\ op = "none"
    /\ \E b \in Records :
        LET res == Block_new(b)
        IN  /\ record' = b
            /\ block' = res.value
            /\ op' = IF res.ok THEN "new" ELSE "panic"
            /\ expected' = BlockHash_ZERO
            /\ verdict' = FALSE
            /\ edits' = 0
            /\ UNCHANGED <<trieVars, txVars, receiptVars>>

\* the records whose headers a caller writes out field by field
LiteralRecords == {WithField(BaseRecord, "number", v) : v \in FieldValues("number")}

\* let block = Block { hash, header, transactions: Vec::new() }: the fields are
\* public, and the test in block.rs builds its block this way
BlockLiteral ==
    /\ op = "none"
    /\ \E b \in LiteralRecords :
        LET header == BlockHeader_from(b)
        IN  /\ header.ok
            /\ b.transactions = <<>>
            /\ \E h \in {keccak256(BlockHeader_encode(header.value)), BlockHash_ZERO} :
                  block' = [exists |-> TRUE, hash |-> h, header |-> header.value,
                            transactions |-> <<>>]
            /\ record' = b
            /\ op' = "literal"
            /\ expected' = BlockHash_ZERO
            /\ verdict' = FALSE
            /\ edits' = 0
            /\ UNCHANGED <<trieVars, txVars, receiptVars>>

\* block.header.<field> = v, block.hash = h, block.transactions.clear(): writes
\* to the public fields of a Block the caller owns
BlockWrite ==
    /\ block.exists
    /\ edits < MaxEdits
    /\ \/ \E f \in HeaderFieldSet : \E v \in FieldValues(f) :
             /\ v # block.header[f]
             /\ block' = [block EXCEPT !.header[f] = v]
       \/ /\ block.hash # BlockHash_ZERO
          /\ block' = [block EXCEPT !.hash = BlockHash_ZERO]
       \/ /\ block.transactions # <<>>
          /\ block' = [block EXCEPT !.transactions = <<>>]
    /\ op' = "write"
    /\ edits' = edits + 1
    /\ expected' = BlockHash_ZERO
    /\ verdict' = FALSE
    /\ UNCHANGED <<record, trieVars, txVars, receiptVars>>

\* block.verify_block_hash(&h)
BlockVerify ==
    /\ block.exists
    /\ \E h \in {block.hash, TrustedHash} :
          /\ expected' = h
          /\ verdict' = verify_block_hash(block, h)
    /\ op' = "verify"
    /\ UNCHANGED <<record, block, edits, trieVars, txVars, receiptVars>>

Init == BlockIdle /\ TrieIdle /\ TxIdle /\ ReceiptIdle

Next == BlockNew \/ BlockLiteral \/ BlockWrite \/ BlockVerify

Spec == Init /\ [][Next]_vars

(***************************************************************************)
(* transaction_trie, one loop iteration per step.                          *)
(***************************************************************************)
TrieInit ==
    /\ num_transactions \in 0..MaxTrieLen
    /\ index = 0
    /\ trie = HashBuilder_default
    /\ tpc = "loop"
    /\ BlockIdle /\ TxIdle /\ ReceiptIdle

\* the body of `for index in 0..num_transactions`
TrieStep ==
    /\ tpc = "loop"
    /\ index < num_transactions
    /\ trie' = trie_step(trie, index, num_transactions)
    /\ index' = index + 1
    /\ tpc' = IF trie'.ok THEN "loop" ELSE "panic"
    /\ UNCHANGED <<num_transactions, blockVars, txVars, receiptVars>>

\* trie.root()
TrieRoot ==
    /\ tpc = "loop"
    /\ index = num_transactions
    /\ tpc' = "done"
    /\ UNCHANGED <<num_transactions, index, trie, blockVars, txVars, receiptVars>>

TrieNext == TrieStep \/ TrieRoot

SpecTrie == TrieInit /\ [][TrieNext]_vars

(***************************************************************************)
(* VerifiedTransaction: construction and encoding.                         *)
(***************************************************************************)
\* the variants VerifiedTransaction::new builds from well-formed input
BuiltTxns ==
    {VerifiedTransaction_new(t, EmptyReceipt).value :
        t \in {e \in ExtTransactions : ~Malformed(e)}}

\* the variants a caller populates field by field, as the tests of
\* transaction.rs do: tx_type is a public field of Tx2930 and Tx1559
PopulatedTxns ==
    {t \in BuiltTxns : t.variant = "Legacy"}
    \cup {[t EXCEPT !.tx_type = k] :
            t \in {u \in BuiltTxns : u.variant # "Legacy"}, k \in 0..MaxTxType}

\* let txn = VerifiedTransaction::new(&transaction, &receipt)
TxNew ==
    /\ txop = "none"
    /\ \E t \in ExtTransactions, r \in TxReceipts :
        LET res == VerifiedTransaction_new(t, r)
        IN  /\ ext' = t
            /\ txn' = res.value
            /\ txop' = IF res.ok THEN "new" ELSE "panic"
            /\ buf' = <<>>
            /\ UNCHANGED <<blockVars, trieVars, receiptVars>>

\* let txn = VerifiedTransaction::Eip2930(Tx2930 { tx_type, .. }) and the like
TxPopulate ==
    /\ txop = "none"
    /\ \E t \in PopulatedTxns :
        /\ txn' = t
        /\ txop' = "populate"
        /\ buf' = <<>>
        /\ UNCHANGED <<ext, blockVars, trieVars, receiptVars>>

\* txn.encode(&mut buf) on an empty buffer
TxEncode ==
    /\ txn.variant # "None"
    /\ txop \in {"new", "populate"}
    /\ buf' = VerifiedTransaction_encode(txn)
    /\ txop' = "encode"
    /\ UNCHANGED <<ext, txn, blockVars, trieVars, receiptVars>>

TxInit == Init

TxNext == TxNew \/ TxPopulate \/ TxEncode

SpecTx == TxInit /\ [][TxNext]_vars

(***************************************************************************)
(* VerifiedReceipt: conversion and encoding.                               *)
(***************************************************************************)
\* let receipt = VerifiedReceipt::from(&value)
ReceiptFrom ==
    /\ rop = "none"
    /\ \E value \in ExtReceipts :
        LET res == VerifiedReceipt_from(value)
        IN  /\ receipt' = res.value
            /\ rop' = IF res.ok THEN "from" ELSE "panic"
            /\ rbuf' = <<>>
            /\ UNCHANGED <<blockVars, trieVars, txVars>>

\* let receipt = VerifiedReceipt::default()
ReceiptDefault ==
    /\ rop = "none"
    /\ receipt' = VerifiedReceipt_default
    /\ rop' = "default"
    /\ rbuf' = <<>>
    /\ UNCHANGED <<blockVars, trieVars, txVars>>

\* receipt.encode(&mut rbuf) on an empty buffer
ReceiptEncode ==
    /\ rop \in {"from", "default"}
    /\ rbuf' = VerifiedReceipt_encode(receipt)
    /\ rop' = "encode"
    /\ UNCHANGED <<receipt, blockVars, trieVars, txVars>>

ReceiptInit == Init

ReceiptNext == ReceiptFrom \/ ReceiptDefault \/ ReceiptEncode

SpecReceipt == ReceiptInit /\ [][ReceiptNext]_vars

(***************************************************************************)
(* Properties of Block (specification Spec).                               *)
(***************************************************************************)
\* C1: verify_block_hash(b, h) returns true exactly when b.hash equals h; a
\* mismatch is answered with false, not a panic, and the call leaves the
\* block's hash, header and transactions as they were.
C1_VerifyIffStoredHashEqual ==
    [][op' = "verify" =>
          /\ verdict' = (block.hash = expected')
          /\ block' = block]_vars

\* a verification that answered false on a hash other than the stored one
C1_Witness == op = "verify" /\ ~verdict /\ expected # block.hash

\* C2: the Block returned by Block::new carries the trie root of its own
\* transaction list in header.transaction_root and the hash of the encoding
\* of that finished header in hash; whichever transaction root the record
\* supplied, the hash is the same.
C2_NewRederivesRootAndHash ==
    op = "new" =>
        /\ block.header.transaction_root = transaction_trie(block.transactions).value
        /\ block.hash = keccak256(BlockHeader_encode(block.header))
        /\ \A v \in FieldValues("transaction_root") :
              Block_new(WithField(record, "transaction_root", v)).value.hash = block.hash

\* a block built from a record with transactions and a transaction root other
\* than the base record's
C2_Witness ==
    /\ op = "new"
    /\ Len(block.transactions) = MaxTxs
    /\ record.transactions_root # BaseRecord.transactions_root

\* the block is the one Block::new builds from the record, and it has just
\* verified true against `expected`
VerifiedAsBuilt ==
    /\ op = "verify"
    /\ verdict
    /\ Block_new(record).ok
    /\ block.header = Block_new(record).value.header
    /\ block.hash = Block_new(record).value.hash

\* C3, as claimed: with the expected hash of a block that verifies, a block
\* built from a header differing in any one of the 17 fields fails to verify.
C3_AnyFieldChangeFailsVerify ==
    VerifiedAsBuilt =>
        \A f \in HeaderFieldSet : \A v \in FieldValues(f) :
            v # Supplied(record, f) =>
                ~verify_block_hash(Block_new(WithField(record, f, v)).value, expected)

\* C3, amended: the same for each of the 16 fields other than
\* transaction_root, which Block::new overwrites.
C3_OtherFieldChangeFailsVerify ==
    VerifiedAsBuilt =>
        \A f \in HeaderFieldSet \ {"transaction_root"} : \A v \in FieldValues(f) :
            v # Supplied(record, f) =>
                ~verify_block_hash(Block_new(WithField(record, f, v)).value, expected)

\* a block with transactions that verified against its expected hash
C3_Witness == VerifiedAsBuilt /\ block.transactions # <<>>

\* C4, as claimed: whatever was done to a Block, its stored hash is the hash
\* of the encoding of its current header, and verify_block_hash answers true
\* only for that hash.
C4_HashIsOfCurrentHeader ==
    block.exists =>
        /\ block.hash = keccak256(BlockHeader_encode(block.header))
        /\ (op = "verify" /\ verdict =>
               expected = keccak256(BlockHeader_encode(block.header)))

(***************************************************************************)
(* Properties of the trie loop (specification SpecTrie).                   *)
(***************************************************************************)
\* the trie key of an index
key_of(k) == Nibbles_unpack(uint_encode(k))

\* C5: for 1 <= n <= 128 the indices index_for_rlp(0, n) .. index_for_rlp(n-1, n)
\* are a permutation of 0 .. n-1 and their keys ascend strictly in that
\* order; zero encodes as the byte 0x80, nibbles 8, 0; index_for_rlp(0, 1) = 0.
C5_RewriteIsAscendingPermutation ==
    LET n == num_transactions
    IN  /\ key_of(0) = <<8, 0>>
        /\ index_for_rlp(0, 1) = 0
        /\ (1 <= n /\ n <= 128) =>
              /\ {index_for_rlp(i, n) : i \in 0..(n - 1)} = 0..(n - 1)
              /\ \A i \in 0..(n - 2) :
                    nibbles_less(key_of(index_for_rlp(i, n)),
                                 key_of(index_for_rlp(i + 1, n)))
              /\ \A j \in 1..Len(trie.leaves) :
                    trie.leaves[j].key = key_of(index_for_rlp(j - 1, n))

\* the loop over 128 transactions has added all its leaves
C5_Witness ==
    num_transactions = 128 /\ tpc = "done" /\ Len(trie.leaves) = 128

\* C6, as claimed: the transaction at position p is inserted under the key
\* of index_for_rlp(p, n).
C6_KeyIsRewriteOfPosition ==
    \A j \in 1..Len(trie.leaves) :
        trie.leaves[j].key = key_of(index_for_rlp(trie.leaves[j].tx, num_transactions))

\* C6, amended: iteration i inserts, under the key of k = index_for_rlp(i, n),
\* the transaction at position k; the transaction at position p is inserted
\* under the key of p itself.
C6_KeyIsOfOwnPosition ==
    \A j \in 1..Len(trie.leaves) :
        /\ trie.leaves[j].tx = index_for_rlp(j - 1, num_transactions)
        /\ trie.leaves[j].key = key_of(trie.leaves[j].tx)

\* a finished loop over several transactions
C6_Witness ==
    tpc = "done" /\ num_transactions = 3 /\ Len(trie.leaves) = 3

\* the indices at which the integer encoding grows by a byte
WidthEdges == {127, 255, 65535, 16777215}

\* C11: for every transaction count n, n = 0 and n > 128 included, the loop
\* of transaction_trie never panics: every index_for_rlp(i, n) with i < n is
\* below n, the keys handed to successive add_leaf calls ascend strictly
\* (also across the indices where the encoding grows by a byte), and for
\* n = 0 no leaf is added and the root is the empty-trie root.
C11_TrieLoopNeverPanics ==
    LET n == num_transactions
    IN  /\ tpc # "panic"
        /\ trie.ok
        /\ \A i \in 0..(n - 1) : index_for_rlp(i, n) < n
        /\ \A j \in 1..(Len(trie.leaves) - 1) :
              nibbles_less(trie.leaves[j].key, trie.leaves[j + 1].key)
        /\ (trie.leaves # <<>>) =>
              nibbles_less(<<>>, trie.leaves[1].key) /\ trie.key = trie.leaves[Len(trie.leaves)].key
        /\ \A k \in WidthEdges : nibbles_less(key_of(k), key_of(k + 1))
        /\ (n = 0 /\ tpc = "done") =>
              /\ trie.leaves = <<>>
              /\ HashBuilder_root(trie, <<>>) = EMPTY_ROOT_HASH
        /\ transaction_trie(<<>>) = [ok |-> TRUE, value |-> EMPTY_ROOT_HASH]

\* a finished loop over more than 128 transactions
C11_Witness ==
    /\ tpc = "done" /\ num_transactions = MaxTrieLen /\ MaxTrieLen > 128
    /\ Len(trie.leaves) = num_transactions

\* two different transactions, as Block::new builds them
TxA == Transaction_from(ExtTx(Some(0), "nothing", FALSE, <<>>)).value
TxB == Transaction_from(ExtTx(Some(2), "nothing", TRUE, <<>>)).value

\* what a trie root commits to for one leaf: its key and its value
leaf_of(key, value) == key \o <<-3>> \o value \o <<-4>>

\* C12: the loop of transaction_trie adds one leaf in every iteration and never
\* the same position twice; each leaf's key is the integer encoding of the
\* position whose transaction is its value; once the loop over n >= 1
\* transactions is done there are exactly n leaves, one for each position
\* 0 .. n-1.  After the loop over the list (TxA, TxB) the root commits to
\* TxB under the key of 1 and to TxA under the key of 0.
C12_OneLeafPerPositionWithOwnValue ==
    LET n == num_transactions
        L == trie.leaves
        positions == {L[j].tx : j \in 1..Len(L)}
    IN  /\ tpc # "panic"
        /\ Len(L) = index
        /\ Cardinality(positions) = Len(L)
        /\ positions \subseteq 0..(n - 1)
        /\ \A j \in 1..Len(L) : L[j].key = key_of(L[j].tx)
        /\ (tpc = "done" /\ n >= 1) => (Len(L) = n /\ positions = 0..(n - 1))
        /\ (tpc = "done" /\ n = 2) =>
              /\ VerifiedTransaction_encode(TxA) # VerifiedTransaction_encode(TxB)
              /\ HashBuilder_root(trie, <<TxA, TxB>>) =
                    keccak256(
                        leaf_of(key_of(1), VerifiedTransaction_encode(TxB))
                        \o leaf_of(key_of(0), VerifiedTransaction_encode(TxA)))
              /\ transaction_trie(<<TxA, TxB>>) =
                    [ok |-> TRUE, value |-> HashBuilder_root(trie, <<TxA, TxB>>)]

\* a finished loop over two transactions: the first leaf is position 1, the
\* second is position 0
C12_Witness ==
    /\ tpc = "done" /\ num_transactions = 2
    /\ Len(trie.leaves) = 2
    /\ trie.leaves[1].tx = 1 /\ trie.leaves[2].tx = 0

(***************************************************************************)
(* Properties of the codecs (specifications SpecTx and SpecReceipt).       *)
(***************************************************************************)
\* the list header read back at position `at` of an output buffer
\* (alloy_rlp::Header::decode): whether one starts there, the payload length
\* it declares and the bytes it takes
list_header_at(bs, at) ==
    IF at > Len(bs) \/ bs[at] < 192
    THEN [list |-> FALSE, payload_length |-> 0, length |-> 0]
    ELSE IF bs[at] <= 247
    THEN [list |-> TRUE, payload_length |-> bs[at] - 192, length |-> 1]
    ELSE LET n == bs[at] - 247
         IN  [list |-> TRUE,
              payload_length |-> from_be_bytes(SubSeq(bs, at + 1, at + n)),
              length |-> 1 + n]

\* the bytes of bs that follow the list header at position `at`
bytes_after_header(bs, at) == Len(bs) - (at - 1) - list_header_at(bs, at).length

\* C7, as claimed: whatever its fields hold, a transaction's encoding starts
\* with 0x01 and a list header iff it is the Eip2930 variant, with 0x02 and a
\* list header iff it is the Eip1559 variant, and with the list header itself
\* iff it is the Legacy variant.
C7_TagByteFollowsVariant ==
    txop = "encode" =>
        /\ (buf[1] = 1 /\ list_header_at(buf, 2).list) <=> (txn.variant = "Eip2930")
        /\ (buf[1] = 2 /\ list_header_at(buf, 2).list) <=> (txn.variant = "Eip1559")
        /\ list_header_at(buf, 1).list <=> (txn.variant = "Legacy")

\* C8, as claimed: construction from an external transaction whose type tag
\* is absent or unknown, or that lacks a field its type requires, ends
\* neither in a panic nor in a transaction.
C8_MalformedInputIsRecoverable ==
    Malformed(ext) => txop \notin {"panic", "new"}

\* C9, as claimed: for every variant, the payload length the list header of
\* the encoding declares is the number of bytes that follow the header.
C9_DeclaredPayloadIsWritten ==
    txop = "encode" =>
        LET at == IF txn.variant = "Legacy" THEN 1 ELSE 2
        IN  /\ list_header_at(buf, at).list
            /\ list_header_at(buf, at).payload_length = bytes_after_header(buf, at)

\* C10, as claimed: the list header of a receipt's encoding declares the sum
\* of the encoded lengths of status, cumulative gas used, log filter and the
\* list of logs, which is the number of bytes that follow the header.
C10_ReceiptPayloadIsWritten ==
    rop = "encode" =>
        LET at == IF is_some(receipt.transaction_type) THEN 2 ELSE 1
        IN  /\ list_header_at(rbuf, at).list
            /\ list_header_at(rbuf, at).payload_length =
                   bool_length(receipt.status)
                   + U256_length(receipt.cumulative_gas_used)
                   + fixed_length(BloomLen)
                   + logs_length(receipt.logs)
            /\ list_header_at(rbuf, at).payload_length = bytes_after_header(rbuf, at)

(***************************************************************************)
(* The embedded receipt and the digests (specification SpecTx).            *)
(***************************************************************************)
\* the receipts a transaction can hold
HeldReceipts ==
    {VerifiedReceipt_default}
    \cup {VerifiedReceipt_from(x).value : x \in {y \in TxReceipts : VerifiedReceipt_from(y).ok}}

\* the same transaction holding another receipt
with_receipt(t, r) == [t EXCEPT !.receipt = r]

\* the hash Block::new derives for a header and a transaction list
derived_hash(header, transactions) ==
    keccak256(BlockHeader_encode(
        [header EXCEPT !.transaction_root = transaction_trie(transactions).value]))

\* C13: the receipt a transaction holds reaches no digest.  The transaction
\* with any other receipt has the same encode output; the block Block::new
\* builds from the external transaction and the block that differs from it
\* only in the receipt its transaction holds have the same transaction root
\* and the same derived hash, and verify_block_hash answers the same for
\* both.
C13_ReceiptReachesNoDigest ==
    (txn.variant # "None") =>
        /\ \A r \in HeldReceipts :
              LET other == with_receipt(txn, r)
              IN  /\ VerifiedTransaction_receipt(other) = r
                  /\ VerifiedTransaction_encode(other) = VerifiedTransaction_encode(txn)
                  /\ (txop = "encode") => buf = VerifiedTransaction_encode(other)
                  /\ transaction_trie(<<other, txn>>) = transaction_trie(<<txn, other>>)
        /\ (txop \in {"new", "encode"} /\ Transaction_from(ext).ok) =>
              LET built == Block_new([BaseRecord EXCEPT !.transactions = <<ext>>]).value
                  held == [built EXCEPT !.transactions = <<txn>>]
              IN  /\ built.transactions = <<with_receipt(txn, built.transactions[1].receipt)>>
                  /\ transaction_trie(held.transactions) =
                        [ok |-> TRUE, value |-> built.header.transaction_root]
                  /\ derived_hash(held.header, held.transactions) = built.hash
                  /\ \A h \in {built.hash, BlockHash_ZERO} :
                        verify_block_hash(held, h) = verify_block_hash(built, h)

\* an encoded transaction that was built with a receipt holding a log, other
\* than the receipt the same transaction holds in the block Block::new builds
C13_Witness ==
    /\ txop = "encode"
    /\ txn.variant = "Eip1559"
    /\ Len(txn.receipt.logs) = 1
    /\ txn.receipt # VerifiedReceipt_default
    /\ buf = VerifiedTransaction_encode(with_receipt(txn, VerifiedReceipt_default))
    /\ Transaction_from(ext).ok
    /\ Transaction_from(ext).value.receipt # txn.receipt

====
